---- MODULE Spec2Model ----
(***************************************************************************)
(* A model of the YandexID python package: the validators                  *)
(* (validators.py), the OAuth error taxonomy (errors/yandexoauth.py) and   *)
(* the asynchronous OAuth client (yandexoauth/async_yandexoauth.py) and    *)
(* get_user_info of the two identity clients (yandexid/yandexid.py,        *)
(* yandexid/async_yandexid.py).                                            *)
(*                                                                         *)
(* Python strings that the code inspects (len, isalnum, split, strip, in,  *)
(* urlencode, b64encode) are sequences of one-character strings.  Values   *)
(* the code only passes along (tokens, codes, error descriptions) are      *)
(* opaque TLA+ strings.  warnings.warn is modelled as appending to the     *)
(* call's list of warnings, self.log.error as appending to its log.        *)
(* Response bodies are JSON objects.                                       *)
(***************************************************************************)
EXTENDS Integers, Sequences, FiniteSets, TLC

VARIABLES
    client,     \* the AsyncYandexOAuth object: its fields after __init__
    idclients,  \* the YandexID and the AsyncYandexID object
    calls,      \* per caller task: the call it is running and how far it got
    vinput,     \* the input handed to a validator called on its own
    vresult     \* what that validator call did

vars == <<client, idclients, calls, vinput, vresult>>

----------------------------------------------------------------------------
(* Python values *)

\* Python's None where a str is expected: a sequence that is no string.
None == <<"<None>">>

\* bool(x) of a `str | None` value: None and '' are falsy.
Truthy(x) == x # None /\ x # <<>>

\* Characters str.isalnum accepts, among the ones the model draws from.
AlnumChars == {"a", "b", "c", "d", "e", "i", "k", "n", "o", "s", "t", "x", "1", "2", "3"}

\* Characters str.strip removes, among the ones the model draws from.
WhitespaceChars == {" "}

\* 'c' * n
Repeat(ch, n) == [i \in 1..n |-> ch]

\* str.isalnum(): every character alphanumeric and at least one character.
IsAlnum(s) == Len(s) > 0 /\ \A i \in 1..Len(s) : s[i] \in AlnumChars

\* `needle in hay` for two str values.
Contains(hay, needle) ==
    \E i \in 0..(Len(hay) - Len(needle)) :
        \A j \in 1..Len(needle) : hay[i + j] = needle[j]

\* str.strip(): drop leading and trailing whitespace.
RECURSIVE LStrip(_)
LStrip(s) == IF s # <<>> /\ Head(s) \in WhitespaceChars THEN LStrip(Tail(s)) ELSE s

RECURSIVE RStrip(_)
RStrip(s) ==
    IF s # <<>> /\ s[Len(s)] \in WhitespaceChars
    THEN RStrip(SubSeq(s, 1, Len(s) - 1))
    ELSE s

Strip(s) == RStrip(LStrip(s))

\* str.split(','): the pieces between the commas; '' splits to [''].
RECURSIVE SplitFrom(_, _)
SplitFrom(s, cur) ==
    IF s = <<>> THEN <<cur>>
    ELSE IF Head(s) = "," THEN <<cur>> \o SplitFrom(Tail(s), <<>>)
    ELSE SplitFrom(Tail(s), Append(cur, Head(s)))

SplitComma(s) == SplitFrom(s, <<>>)

----------------------------------------------------------------------------
(* validators.py *)

DeviceIdMinLen == 6
DeviceIdMaxLen == 50
DeviceNameMaxLen == 100

Ok == [kind |-> "return", exc |-> "", msg |-> ""]
Raise(e, m) == [kind |-> "raise", exc |-> e, msg |-> m]

\* No validator has been called on its own yet.
NotCalled == [kind |-> "none", exc |-> "", msg |-> "", warnings |-> <<>>]

DeviceID_validate_TooLongOffByOne(device_id) ==
    IF Len(device_id) < DeviceIdMinLen
    THEN Raise("InvalidDeviceID", "Device ID is too short")
    ELSE IF Len(device_id) > DeviceIdMaxLen + 1
    THEN Raise("InvalidDeviceID", "Device ID is too long")
    ELSE IF ~IsAlnum(device_id)
    THEN Raise("InvalidDeviceID", "Device ID must contain only alphanumeric characters")
    ELSE Ok

\* DeviceID.validate
DeviceID_validate(device_id) ==
    IF Len(device_id) < DeviceIdMinLen
    THEN Raise("InvalidDeviceID", "Device ID is too short")
    ELSE IF Len(device_id) > DeviceIdMaxLen
    THEN Raise("InvalidDeviceID", "Device ID is too long")
    ELSE IF ~IsAlnum(device_id)
    THEN Raise("InvalidDeviceID", "Device ID must contain only alphanumeric characters")
    ELSE Ok

DeviceName_validate_AtLimitRejected(device_name) ==
    IF Len(device_name) >= DeviceNameMaxLen
    THEN Raise("InvalidDeviceName", "Device name is too long")
    ELSE Ok

\* DeviceName.validate
DeviceName_validate(device_name) ==
    IF Len(device_name) > DeviceNameMaxLen
    THEN Raise("InvalidDeviceName", "Device name is too long")
    ELSE Ok

\* OptionalScope.validate: ignored_scope as the loop builds it.  The
\* membership test is on the piece as split, the strip is on what is kept.
RECURSIVE IgnoredScope(_, _)
IgnoredScope(scope, items) ==
    IF items = <<>> THEN <<>>
    ELSE (IF ~Contains(scope, Head(items)) THEN <<Strip(Head(items))>> ELSE <<>>)
         \o IgnoredScope(scope, Tail(items))

\* OptionalScope.validate: the warnings it emits (it returns None and has
\* no raise statement).  A warning is the list of scopes it names.
OptionalScope_validate(scope, optional_scope) ==
    LET ignored_scope == IgnoredScope(scope, SplitComma(optional_scope))
    IN  IF ignored_scope # <<>> THEN <<ignored_scope>> ELSE <<>>

----------------------------------------------------------------------------
(* Encodings the OAuth client applies: urllib.parse.urlencode, b64encode *)

\* ord(c) of the characters the model draws from (all ASCII).
Ord(c) ==
    CASE c = " " -> 32  [] c = "," -> 44  [] c = "-" -> 45  [] c = "/" -> 47
      [] c = "1" -> 49  [] c = "2" -> 50  [] c = "3" -> 51  [] c = ":" -> 58
      [] c = "a" -> 97  [] c = "b" -> 98  [] c = "c" -> 99  [] c = "d" -> 100
      [] c = "e" -> 101 [] c = "i" -> 105 [] c = "k" -> 107 [] c = "n" -> 110
      [] c = "o" -> 111 [] c = "s" -> 115 [] c = "t" -> 116 [] c = "x" -> 120

HexDigits == <<"0", "1", "2", "3", "4", "5", "6", "7",
               "8", "9", "A", "B", "C", "D", "E", "F">>

\* urllib.parse.quote_plus of one character: alphanumerics and _.-~ are
\* kept, a space becomes '+', anything else becomes %XX.
QuoteChar(c) ==
    IF c \in AlnumChars \cup {"_", ".", "-", "~"} THEN <<c>>
    ELSE IF c = " " THEN <<"+">>
    ELSE <<"%", HexDigits[(Ord(c) \div 16) + 1], HexDigits[(Ord(c) % 16) + 1]>>

RECURSIVE QuotePlus(_)
QuotePlus(s) == IF s = <<>> THEN <<>> ELSE QuoteChar(Head(s)) \o QuotePlus(Tail(s))

\* urlencode(params): the key=value pairs in the dict's insertion order,
\* each value quoted (the keys are lower case words, which quoting keeps).
UrlEncode(params) == [i \in 1..Len(params) |-> <<params[i][1], QuotePlus(params[i][2])>>]

B64Alphabet ==
    <<"A", "B", "C", "D", "E", "F", "G", "H", "I", "J", "K", "L", "M",
      "N", "O", "P", "Q", "R", "S", "T", "U", "V", "W", "X", "Y", "Z",
      "a", "b", "c", "d", "e", "f", "g", "h", "i", "j", "k", "l", "m",
      "n", "o", "p", "q", "r", "s", "t", "u", "v", "w", "x", "y", "z",
      "0", "1", "2", "3", "4", "5", "6", "7", "8", "9", "+", "/">>

\* base64.b64encode of a byte string, three bytes at a time, '=' padded.
RECURSIVE B64Encode(_)
B64Encode(bytes) ==
    IF bytes = <<>> THEN <<>>
    ELSE LET n  == Len(bytes)
             b1 == bytes[1]
             b2 == IF n >= 2 THEN bytes[2] ELSE 0
             b3 == IF n >= 3 THEN bytes[3] ELSE 0
             w  == b1 * 65536 + b2 * 256 + b3
         IN  << B64Alphabet[(w \div 262144) + 1],
                B64Alphabet[((w \div 4096) % 64) + 1],
                IF n >= 2 THEN B64Alphabet[((w \div 64) % 64) + 1] ELSE "=",
                IF n >= 3 THEN B64Alphabet[(w % 64) + 1] ELSE "=" >>
             \o (IF n > 3 THEN B64Encode(SubSeq(bytes, 4, n)) ELSE <<>>)

\* str.encode() of an ASCII string.
Encode(s) == [i \in 1..Len(s) |-> Ord(s[i])]

\* f'Basic {b64encode(f"{client_id}:{client_secret}".encode()).decode()}'
BasicAuth(self) ==
    <<"B", "a", "s", "i", "c", " ">>
        \o B64Encode(Encode(self.client_id \o <<":">> \o self.client_secret))

----------------------------------------------------------------------------
(* yandexoauth/async_yandexoauth.py: the client object *)

BASE_URL == "https://oauth.yandex.ru"
UserAgent == "YandexID/__version__"

W_UnknownDevice ==
    [category |-> "UserWarning",
     text |-> "device_id is specified, but device_name is not. Yandex ID returns token for unknown device.",
     scopes |-> <<>>]
W_NameIgnored ==
    [category |-> "UserWarning",
     text |-> "device_name is specified, but device_id is not. device_name will be ignored.",
     scopes |-> <<>>]
W_OptionalScope(ignored) ==
    [category |-> "UserWarning", text |-> "Optional scopes ... is not in scope.",
     scopes |-> ignored]

NoValue == [type |-> "none"]
NoOutcome == [kind |-> "none", exc |-> "", msg |-> "", value |-> NoValue]
Returned(v) == [kind |-> "return", exc |-> "", msg |-> "", value |-> v]
Raised(e, m) == [kind |-> "raise", exc |-> e, msg |-> m, value |-> NoValue]

\* AsyncYandexOAuth.__init__: the object's fields.  `transport` is the httpx
\* client requests go through: the one __init__ builds, or the one the
\* caller passed as `client`, which keeps the caller's own configuration.
OAuth_init(client_id, client_secret, redirect_uri, scope, injected) ==
    [client_id |-> client_id, client_secret |-> client_secret,
     redirect_uri |-> redirect_uri, scope |-> scope,
     headers |-> [UserAgent |-> UserAgent],
     params |-> [client_id |-> client_id],
     injected |-> injected,
     transport |->
        IF injected
        THEN [base_url |-> BASE_URL, params |-> <<>>,
              headers |-> [UserAgent |-> "python-httpx"]]
        ELSE [base_url |-> BASE_URL, params |-> <<<<"client_id", client_id>>>>,
              headers |-> [UserAgent |-> UserAgent]]]

----------------------------------------------------------------------------
(* AsyncYandexOAuth.get_authorization_url *)

\* What a run of statements leaves behind: the exception it raised (or
\* none), the key/value pairs it added, its warnings and its log records.
Section(outcome, pairs, warnings, log) ==
    [outcome |-> outcome, pairs |-> pairs, warnings |-> warnings, log |-> log]

AuthUrl_DeviceId_WarnsAlways(device_id, device_name) ==
    IF ~Truthy(device_id) THEN Section(NoOutcome, <<>>, <<>>, <<>>)
    ELSE LET r == DeviceID_validate(device_id)
         IN  IF r.kind = "raise"
             THEN Section(Raised(r.exc, r.msg), <<>>, <<>>, <<r.msg>>)
             ELSE Section(NoOutcome, <<<<"device_id", device_id>>>>,
                          <<W_UnknownDevice>>, <<>>)

\* `if device_id:` block of get_authorization_url
AuthUrl_DeviceId(device_id, device_name) ==
    IF ~Truthy(device_id) THEN Section(NoOutcome, <<>>, <<>>, <<>>)
    ELSE LET r == DeviceID_validate(device_id)
         IN  IF r.kind = "raise"
             THEN Section(Raised(r.exc, r.msg), <<>>, <<>>, <<r.msg>>)
             ELSE Section(NoOutcome, <<<<"device_id", device_id>>>>,
                          IF ~Truthy(device_name) THEN <<W_UnknownDevice>> ELSE <<>>,
                          <<>>)

\* `if device_name:` block of get_authorization_url
AuthUrl_DeviceName(device_id, device_name) ==
    IF ~Truthy(device_name) THEN Section(NoOutcome, <<>>, <<>>, <<>>)
    ELSE LET r == DeviceName_validate(device_name)
         IN  IF r.kind = "raise"
             THEN Section(Raised(r.exc, r.msg), <<>>, <<>>, <<r.msg>>)
             ELSE Section(NoOutcome, <<<<"device_name", device_name>>>>,
                          IF ~Truthy(device_id) THEN <<W_NameIgnored>> ELSE <<>>,
                          <<>>)

\* `if optional_scope:` block: the scope optional_scope is tested against.
\* The client's own scope is looked at first, the argument second.
AuthUrl_TestScope(self, scope) ==
    IF Truthy(self.scope) THEN self.scope
    ELSE IF Truthy(scope) THEN scope
    ELSE None

\* `if optional_scope:` block of get_authorization_url
AuthUrl_OptionalScope(self, scope, optional_scope) ==
    IF ~Truthy(optional_scope) THEN Section(NoOutcome, <<>>, <<>>, <<>>)
    ELSE LET checked == Truthy(self.scope) \/ Truthy(scope)
             test_scope == AuthUrl_TestScope(self, scope)
             w == IF checked /\ Truthy(test_scope)
                  THEN OptionalScope_validate(test_scope, optional_scope)
                  ELSE <<>>
         IN  Section(NoOutcome, <<<<"optional_scope", optional_scope>>>>,
                     [i \in 1..Len(w) |-> W_OptionalScope(w[i])], <<>>)

AuthUrl_Scope_StoresScope(self, scope) ==
    IF Truthy(scope)
    THEN [self |-> [self EXCEPT !.scope = scope], pairs |-> <<<<"scope", scope>>>>]
    ELSE [self |-> self, pairs |-> <<>>]

\* `if scope:` block of get_authorization_url: the pair it adds to params and
\* the object as the block leaves it (the block assigns to no field).
AuthUrl_Scope(self, scope) ==
    IF Truthy(scope)
    THEN [self |-> self, pairs |-> <<<<"scope", scope>>>>]
    ELSE [self |-> self, pairs |-> <<>>]

\* str(int(force_confirm)) of a truthy bool
StrInt(b) == IF b = "True" THEN <<"1">> ELSE <<"0">>

\* get_authorization_url: the whole method.  The result is the outcome
\* (the URL or the exception), the warnings emitted, the errors logged and
\* the object as the method leaves it.
get_authorization_url(self, a) ==
    LET p0 == << <<"response_type", a.response_type>>,
                 <<"redirect_uri", self.redirect_uri>>,
                 <<"client_id", self.client_id>> >>
        id == AuthUrl_DeviceId(a.device_id, a.device_name)
        nm == AuthUrl_DeviceName(a.device_id, a.device_name)
        sc == AuthUrl_Scope(self, a.scope)
        os == AuthUrl_OptionalScope(sc.self, a.scope, a.optional_scope)
    IN  IF id.outcome.kind = "raise"
        THEN [outcome |-> id.outcome, warnings |-> id.warnings, log |-> id.log,
              self |-> self]
        ELSE IF nm.outcome.kind = "raise"
        THEN [outcome |-> nm.outcome, warnings |-> id.warnings \o nm.warnings,
              log |-> id.log \o nm.log, self |-> self]
        ELSE LET params ==
                     p0 \o id.pairs \o nm.pairs
                     \o (IF Truthy(a.login_hint) THEN <<<<"login_hint", a.login_hint>>>> ELSE <<>>)
                     \o sc.pairs
                     \o os.pairs
                     \o (IF a.force_confirm = "True"
                         THEN <<<<"force_confirm", StrInt(a.force_confirm)>>>> ELSE <<>>)
                     \o (IF Truthy(a.state) THEN <<<<"state", a.state>>>> ELSE <<>>)
             IN  [outcome |-> Returned([type |-> "str", base |-> BASE_URL,
                                        path |-> "/authorize",
                                        query |-> UrlEncode(params)]),
                  warnings |-> id.warnings \o nm.warnings \o os.warnings,
                  log |-> id.log \o nm.log, self |-> sc.self]

----------------------------------------------------------------------------
(* AsyncYandexOAuth._make_request and the three network operations *)

\* Token.scope when the response holds no scope (the field's default).
NoScope == "<None>"

\* _make_request up to its await: self.__client.request(method, url,
\* **kwargs) hands one request to the transport, which adds the client's
\* own base_url, params and headers.  `sent` is what this call sent so far.
MakeRequest_send_Twice(self, sent, method, url, data, headers) ==
    LET req == [method |-> method, url |-> url, data |-> data,
                base_url |-> self.transport.base_url,
                params |-> self.transport.params,
                user_agent |-> self.transport.headers.UserAgent,
                authorization |-> headers.Authorization]
    IN  sent \o <<req, req>>

MakeRequest_send(self, sent, method, url, data, headers) ==
    Append(sent,
           [method |-> method, url |-> url, data |-> data,
            base_url |-> self.transport.base_url,
            params |-> self.transport.params,
            user_agent |-> self.transport.headers.UserAgent,
            authorization |-> headers.Authorization])

\* _make_request after its await: raise_for_status(), then json().
MakeRequest_result(response) ==
    IF response.status >= 400
    THEN Raised("HTTPStatusError", "status")
    ELSE Returned([type |-> "dict", body |-> response.body])

\* response['error_description'] as the argument of the exception raised.
RaiseWithDescription(exc, body) ==
    IF "error_description" \in DOMAIN body
    THEN Raised(exc, body.error_description)
    ELSE Raised("KeyError", "error_description")

Token_init_DropsScope(body) ==
    IF {"access_token", "token_type", "expires_in", "refresh_token"} \subseteq DOMAIN body
    THEN Returned([type |-> "Token",
                   access_token |-> body.access_token,
                   token_type |-> body.token_type,
                   expires_in |-> body.expires_in,
                   refresh_token |-> body.refresh_token,
                   scope |-> NoScope])
    ELSE Raised("ValidationError", "field required")

\* Token(**response): the four required fields, scope defaulting to None,
\* other keys ignored.
Token_init(body) ==
    IF {"access_token", "token_type", "expires_in", "refresh_token"} \subseteq DOMAIN body
    THEN Returned([type |-> "Token",
                   access_token |-> body.access_token,
                   token_type |-> body.token_type,
                   expires_in |-> body.expires_in,
                   refresh_token |-> body.refresh_token,
                   scope |-> IF "scope" \in DOMAIN body THEN body.scope ELSE NoScope])
    ELSE Raised("ValidationError", "field required")

Code_DeviceId_NotNone(device_id, device_name) ==
    IF device_id = None THEN Section(NoOutcome, <<>>, <<>>, <<>>)
    ELSE LET r == DeviceID_validate(device_id)
         IN  IF r.kind = "raise"
             THEN Section(Raised(r.exc, r.msg), <<>>, <<>>, <<r.msg>>)
             ELSE Section(NoOutcome, <<<<"device_id", device_id>>>>,
                          IF ~Truthy(device_name) THEN <<W_UnknownDevice>> ELSE <<>>,
                          <<>>)

\* `if device_id:` block of get_token_from_code
Code_DeviceId(device_id, device_name) ==
    IF ~Truthy(device_id) THEN Section(NoOutcome, <<>>, <<>>, <<>>)
    ELSE LET r == DeviceID_validate(device_id)
         IN  IF r.kind = "raise"
             THEN Section(Raised(r.exc, r.msg), <<>>, <<>>, <<r.msg>>)
             ELSE Section(NoOutcome, <<<<"device_id", device_id>>>>,
                          IF ~Truthy(device_name) THEN <<W_UnknownDevice>> ELSE <<>>,
                          <<>>)

Code_DeviceName_Unchecked(device_id, device_name) ==
    IF ~Truthy(device_name) THEN Section(NoOutcome, <<>>, <<>>, <<>>)
    ELSE Section(NoOutcome, <<<<"device_name", device_name>>>>,
                 IF ~Truthy(device_id) THEN <<W_NameIgnored>> ELSE <<>>,
                 <<>>)

\* `if device_name:` block of get_token_from_code
Code_DeviceName(device_id, device_name) ==
    IF ~Truthy(device_name) THEN Section(NoOutcome, <<>>, <<>>, <<>>)
    ELSE LET r == DeviceName_validate(device_name)
         IN  IF r.kind = "raise"
             THEN Section(Raised(r.exc, r.msg), <<>>, <<>>, <<r.msg>>)
             ELSE Section(NoOutcome, <<<<"device_name", device_name>>>>,
                          IF ~Truthy(device_id) THEN <<W_NameIgnored>> ELSE <<>>,
                          <<>>)

\* get_token_from_code up to the await of _make_request: the exception
\* raised or the request sent, the warnings and the log records.
get_token_from_code_start(self, a) ==
    LET id == Code_DeviceId(a.device_id, a.device_name)
        nm == Code_DeviceName(a.device_id, a.device_name)
        data == << <<"grant_type", "authorization_code">>, <<"code", a.code>> >>
                \o id.pairs \o nm.pairs
    IN  IF id.outcome.kind = "raise"
        THEN [outcome |-> id.outcome, requests |-> <<>>,
              warnings |-> id.warnings, log |-> id.log]
        ELSE IF nm.outcome.kind = "raise"
        THEN [outcome |-> nm.outcome, requests |-> <<>>,
              warnings |-> id.warnings \o nm.warnings, log |-> id.log \o nm.log]
        ELSE [outcome |-> NoOutcome,
              requests |-> MakeRequest_send(self, <<>>, "POST", "/token", data,
                                            [Authorization |-> BasicAuth(self)]),
              warnings |-> id.warnings \o nm.warnings, log |-> id.log \o nm.log]

\* The match statement of get_token_from_code.
Code_ErrorClass(error) ==
    CASE error = "authorization_pending"  -> "AuthorizationPending"
      [] error = "bad_verification_code"  -> "BadVerificationCode"
      [] error = "invalid_client"         -> "InvalidClient"
      [] error = "invalid_grant"          -> "InvalidGrant"
      [] error = "invalid_request"        -> "InvalidRequest"
      [] error = "invalid_scope"          -> "InvalidScope"
      [] error = "unauthorized_client"    -> "UnauthorizedClient"
      [] error = "unsupported_grant_type" -> "UnsupportedGrantType"
      [] OTHER                            -> "YandexOAuthError"

\* get_token_from_code after the await.
get_token_from_code_finish(response) ==
    LET r == MakeRequest_result(response)
    IN  IF r.kind = "raise" THEN r
        ELSE IF "error" \in DOMAIN r.value.body
        THEN RaiseWithDescription(Code_ErrorClass(r.value.body.error), r.value.body)
        ELSE Token_init(r.value.body)

\* get_token_from_refresh_token up to the await.
get_token_from_refresh_token_start(self, a) ==
    [outcome |-> NoOutcome,
     requests |-> MakeRequest_send(self, <<>>, "POST", "/token",
                     << <<"grant_type", "refresh_token">>,
                        <<"refresh_token", a.refresh_token>> >>,
                     [Authorization |-> BasicAuth(self)]),
     warnings |-> <<>>, log |-> <<>>]

\* The match statement of get_token_from_refresh_token.
Refresh_ErrorClass(error) ==
    CASE error = "invalid_client"         -> "InvalidClient"
      [] error = "invalid_grant"          -> "InvalidGrant"
      [] error = "invalid_request"        -> "InvalidRequest"
      [] error = "unauthorized_client"    -> "UnauthorizedClient"
      [] error = "unsupported_grant_type" -> "UnsupportedGrantType"
      [] OTHER                            -> "YandexOAuthError"

\* get_token_from_refresh_token after the await.
get_token_from_refresh_token_finish(response) ==
    LET r == MakeRequest_result(response)
    IN  IF r.kind = "raise" THEN r
        ELSE IF "error" \in DOMAIN r.value.body
        THEN RaiseWithDescription(Refresh_ErrorClass(r.value.body.error), r.value.body)
        ELSE Token_init(r.value.body)

\* revoke_token up to the await.
revoke_token_start(self, a) ==
    [outcome |-> NoOutcome,
     requests |-> MakeRequest_send(self, <<>>, "POST", "/revoke_token",
                     << <<"access_token", a.access_token>> >>,
                     [Authorization |-> BasicAuth(self)]),
     warnings |-> <<>>, log |-> <<>>]

Revoke_ErrorClass_AsRefresh(error) ==
    CASE error = "invalid_client"         -> "InvalidClient"
      [] error = "invalid_grant"          -> "InvalidGrant"
      [] error = "invalid_request"        -> "InvalidRequest"
      [] error = "unauthorized_client"    -> "UnauthorizedClient"
      [] error = "unsupported_grant_type" -> "UnsupportedGrantType"
      [] OTHER                            -> "YandexOAuthError"

\* The match statement of revoke_token.
Revoke_ErrorClass(error) ==
    CASE error = "invalid_client"         -> "InvalidClient"
      [] error = "invalid_request"        -> "InvalidRequest"
      [] error = "unauthorized_client"    -> "UnauthorizedClient"
      [] OTHER                            -> "YandexOAuthError"

revoke_token_finish_FalseOnError(response) ==
    LET r == MakeRequest_result(response)
    IN  IF r.kind = "raise" THEN r
        ELSE IF "error" \in DOMAIN r.value.body
        THEN Returned([type |-> "bool", v |-> FALSE])
        ELSE Returned([type |-> "bool", v |-> TRUE])

\* revoke_token after the await.
revoke_token_finish(response) ==
    LET r == MakeRequest_result(response)
    IN  IF r.kind = "raise" THEN r
        ELSE IF "error" \in DOMAIN r.value.body
        THEN RaiseWithDescription(Revoke_ErrorClass(r.value.body.error), r.value.body)
        ELSE Returned([type |-> "bool", v |-> TRUE])

----------------------------------------------------------------------------
(* yandexid/yandexid.py and yandexid/async_yandexid.py: get_user_info *)

ID_BASE_URL == "https://login.yandex.ru"

\* None where the value is an opaque string (jwt_secret).
NoneStr == "<None>"

W_JwtSecret ==
    [category |-> "UserWarning",
     text |-> "Using jwt_secret is not recommended for security reasons",
     scopes |-> <<>>]

\* The headers and base_url of an httpx client the caller built and passed
\* as `client`: __init__ adds nothing to it.
CallerTransport(base_url) ==
    [base_url |-> base_url,
     headers |-> [UserAgent |-> "python-httpx", Authorization |-> <<"none">>]]

\* YandexID.__init__
YandexID_init(oauth_token, injected) ==
    [oauth_token |-> oauth_token,
     headers |-> [UserAgent |-> UserAgent, Authorization |-> <<"OAuth", oauth_token>>],
     injected |-> injected,
     transport |->
        IF injected THEN CallerTransport(ID_BASE_URL)
        ELSE [base_url |-> ID_BASE_URL,
              headers |-> [UserAgent |-> UserAgent,
                           Authorization |-> <<"OAuth", oauth_token>>]]]

\* AsyncYandexID.__init__
AsyncYandexID_init(oauth_token, injected) ==
    [oauth_token |-> oauth_token,
     headers |-> [UserAgent |-> UserAgent, Authorization |-> <<"OAuth", oauth_token>>],
     injected |-> injected,
     transport |->
        IF injected THEN CallerTransport(ID_BASE_URL)
        ELSE [base_url |-> ID_BASE_URL,
              headers |-> [UserAgent |-> UserAgent,
                           Authorization |-> <<"OAuth", oauth_token>>]]]

\* _make_request of either identity client up to the response:
\* self.__client.request('GET', url, **kwargs).
Id_MakeRequest_send(self, url, params) ==
    <<[method |-> "GET", url |-> url, params |-> params,
       base_url |-> self.transport.base_url,
       user_agent |-> self.transport.headers.UserAgent,
       authorization |-> self.transport.headers.Authorization]>>

\* _make_request of either identity client: raise_for_status(), then .text
Id_MakeRequest_result(response) ==
    IF response.status >= 400
    THEN Raised("HTTPStatusError", "status")
    ELSE Returned([type |-> "str", text |-> response.body.text])

\* YandexID.get_user_info up to the request it sends.
YandexID_get_user_info_start(self, a) ==
    LET params == << <<"format", a.format>> >>
                  \o (IF a.with_openid_identity
                      THEN << <<"with_openid_identity", 1>> >> ELSE <<>>)
                  \o (IF a.jwt_secret # NoneStr /\ a.jwt_secret # ""
                      THEN << <<"jwt_secert", a.jwt_secret>> >> ELSE <<>>)
    IN  [outcome |-> NoOutcome,
         requests |-> Id_MakeRequest_send(self, "/info", params),
         warnings |-> IF a.jwt_secret # NoneStr THEN <<W_JwtSecret>> ELSE <<>>,
         log |-> <<>>]

\* AsyncYandexID.get_user_info up to its await.
AsyncYandexID_get_user_info_start(self, a) ==
    LET params == << <<"format", a.format>> >>
                  \o (IF a.with_openid_identity
                      THEN << <<"with_openid_identity", 1>> >> ELSE <<>>)
                  \o (IF a.jwt_secret # NoneStr /\ a.jwt_secret # ""
                      THEN << <<"jwt_secert", a.jwt_secret>> >> ELSE <<>>)
    IN  [outcome |-> NoOutcome,
         requests |-> Id_MakeRequest_send(self, "/info", params),
         warnings |-> IF a.jwt_secret # NoneStr THEN <<W_JwtSecret>> ELSE <<>>,
         log |-> <<>>]

IdentityOps == {"YandexID.get_user_info", "AsyncYandexID.get_user_info"}

----------------------------------------------------------------------------
(* The caller, the transport and the provider *)

\* Caller tasks that may run a call on the one client object.
Tasks == {1, 2}
\* The tasks that run calls one after another in Spec.
SeqTasks == {1}

ClientIds == {<<"i", "d">>}
ClientSecrets == {<<"s", "2">>}
RedirectUris == {<<"a", ":", "/", "b">>}
DefaultScopes == {None, <<"a">>, <<"a", " ", "b">>}

DeviceIdArgs ==
    {None, <<>>, <<"a", "b", "c", "1", "2", "3">>, <<"a", "b">>,
     <<"a", "b", "c", "-", "1", "2", "3">>, Repeat("x", 51)}
DeviceNameArgs == {None, <<>>, <<"a", " ", "b">>, Repeat("x", 101)}

AuthUrlArgs ==
    [response_type : {<<"c", "o", "d", "e">>, <<"t", "o", "k", "e", "n">>},
     device_id : DeviceIdArgs,
     device_name : DeviceNameArgs,
     login_hint : {None, <<"a">>},
     scope : {None, <<>>, <<"b">>, <<"a", " ", "b">>},
     optional_scope : {None, <<>>, <<"b">>, <<"a", ",", " ", "b">>, <<"c">>},
     force_confirm : {"None", "True", "False"},
     state : {None, <<"x">>}]

CodeArgs == [code : {"1234567"}, device_id : DeviceIdArgs, device_name : DeviceNameArgs]
RefreshArgs == [refresh_token : {"R0", "R1"}]
RevokeArgs == [access_token : {"A0", "A1"}]

\* Provider error codes: the eight the code names and one it does not.
ErrorCodes ==
    {"authorization_pending", "bad_verification_code", "invalid_client",
     "invalid_grant", "invalid_request", "invalid_scope", "unauthorized_client",
     "unsupported_grant_type", "server_error"}
Descriptions == {"bad token", "expired"}

TokenBodies ==
    [access_token : {"A"}, token_type : {"bearer", "mac"},
     expires_in : {3600, 0, -1}, refresh_token : {"R"}]
    \cup [access_token : {"A"}, token_type : {"bearer", "mac"},
          expires_in : {3600, 0, -1}, refresh_token : {"R"}, scope : {"login:info"}]

ErrorBodies ==
    [error : ErrorCodes, error_description : Descriptions]
    \cup [error : ErrorCodes]
    \cup [error : ErrorCodes, error_description : {"bad token"},
          access_token : {"A"}, token_type : {"bearer"},
          expires_in : {3600}, refresh_token : {"R"}]

\* JSON objects a response may hold.
Bodies ==
    TokenBodies \cup ErrorBodies
    \cup {[status |-> "ok"], [access_token |-> "A"]}

\* What the transport hands back: a status and a JSON object.
Responses ==
    [status : {200}, body : Bodies]
    \cup [status : {400, 500},
          body : {[error |-> "invalid_grant", error_description |-> "expired"],
                  [status |-> "ok"]}]

UserInfoArgs ==
    [format : {"json", "xml", "jwt"},
     jwt_secret : {NoneStr, "", "k"},
     with_openid_identity : BOOLEAN]

OAuthTokens == {"T"}

\* What the identity transport hands back: a status and a text.
IdResponses ==
    [status : {200}, body : {[text |-> "{}"], [text |-> "<user/>"], [text |-> "e.y.J"]}]
    \cup [status : {401, 500}, body : {[text |-> ""]}]

NoResponse == [status |-> 0, body |-> [none |-> "none"]]

Idle ==
    [op |-> "none", pc |-> "idle", args |-> [none |-> "none"], requests |-> <<>>,
     response |-> NoResponse, outcome |-> NoOutcome, warnings |-> <<>>, log |-> <<>>]

Init ==
    /\ \E id \in ClientIds, sec \in ClientSecrets, uri \in RedirectUris,
          sc \in DefaultScopes, inj \in BOOLEAN :
           client = OAuth_init(id, sec, uri, sc, inj)
    /\ \E tok \in OAuthTokens, inj \in BOOLEAN :
           idclients = [sync |-> YandexID_init(tok, inj),
                        async |-> AsyncYandexID_init(tok, inj)]
    /\ calls = [c \in Tasks |-> Idle]
    /\ vinput = [fn |-> "none"]
    /\ vresult = NotCalled

\* A task calls get_authorization_url; the method runs to its end.
CallGetAuthorizationUrl(c) ==
    /\ calls[c].pc = "idle"
    /\ \E a \in AuthUrlArgs :
        LET r == get_authorization_url(client, a)
        IN  /\ calls' = [calls EXCEPT ![c] =
                    [op |-> "get_authorization_url", pc |-> "done", args |-> a,
                     requests |-> <<>>, response |-> NoResponse, outcome |-> r.outcome,
                     warnings |-> r.warnings, log |-> r.log]]
            /\ client' = r.self
    /\ UNCHANGED <<idclients, vinput, vresult>>

\* A network operation from its call to its await (or to its raise).
Begin(c, op, a, r) ==
    calls' = [calls EXCEPT ![c] =
        [op |-> op, pc |-> IF r.outcome.kind = "raise" THEN "done" ELSE "awaiting",
         args |-> a, requests |-> r.requests, response |-> NoResponse,
         outcome |-> r.outcome, warnings |-> r.warnings, log |-> r.log]]

CallGetTokenFromCodeWith(c, Args) ==
    /\ calls[c].pc = "idle"
    /\ \E a \in Args :
        Begin(c, "get_token_from_code", a, get_token_from_code_start(client, a))
    /\ UNCHANGED <<client, idclients, vinput, vresult>>

CallGetTokenFromCode(c) == CallGetTokenFromCodeWith(c, CodeArgs)

CallGetTokenFromRefreshTokenWith(c, Args) ==
    /\ calls[c].pc = "idle"
    /\ \E a \in Args :
        Begin(c, "get_token_from_refresh_token", a,
              get_token_from_refresh_token_start(client, a))
    /\ UNCHANGED <<client, idclients, vinput, vresult>>

CallGetTokenFromRefreshToken(c) == CallGetTokenFromRefreshTokenWith(c, RefreshArgs)

CallRevokeTokenWith(c, Args) ==
    /\ calls[c].pc = "idle"
    /\ \E a \in Args :
        Begin(c, "revoke_token", a, revoke_token_start(client, a))
    /\ UNCHANGED <<client, idclients, vinput, vresult>>

CallRevokeToken(c) == CallRevokeTokenWith(c, RevokeArgs)

\* The transport completes the request a task is awaiting.
TransportRespondsWith(c, Resps) ==
    /\ calls[c].pc = "awaiting"
    /\ calls[c].op \notin IdentityOps
    /\ \E resp \in Resps :
        calls' = [calls EXCEPT ![c].response = resp, ![c].pc = "ready"]
    /\ UNCHANGED <<client, idclients, vinput, vresult>>

TransportResponds(c) == TransportRespondsWith(c, Responses)

Awaited_SharedSlot(c) ==
    LET d == CHOOSE d \in Tasks : calls[d].response # NoResponse
    IN  calls[d].response

\* `response = await self._make_request(...)`: the local variable of the
\* coroutine task c runs holds the response to the request c sent.
Awaited(c) == calls[c].response

\* The task resumes after its await and runs the method to its end.
ResumeGetTokenFromCode(c) ==
    /\ calls[c].pc = "ready"
    /\ calls[c].op = "get_token_from_code"
    /\ calls' = [calls EXCEPT ![c].pc = "done",
                              ![c].outcome = get_token_from_code_finish(Awaited(c))]
    /\ UNCHANGED <<client, idclients, vinput, vresult>>

ResumeGetTokenFromRefreshToken(c) ==
    /\ calls[c].pc = "ready"
    /\ calls[c].op = "get_token_from_refresh_token"
    /\ calls' = [calls EXCEPT ![c].pc = "done",
                    ![c].outcome = get_token_from_refresh_token_finish(Awaited(c))]
    /\ UNCHANGED <<client, idclients, vinput, vresult>>

ResumeRevokeToken(c) ==
    /\ calls[c].pc = "ready"
    /\ calls[c].op = "revoke_token"
    /\ calls' = [calls EXCEPT ![c].pc = "done",
                              ![c].outcome = revoke_token_finish(Awaited(c))]
    /\ UNCHANGED <<client, idclients, vinput, vresult>>

\* A task calls YandexID.get_user_info: the request goes out and the
\* thread blocks in the transport.
CallSyncGetUserInfo(c) ==
    /\ calls[c].pc = "idle"
    /\ \E a \in UserInfoArgs :
        Begin(c, "YandexID.get_user_info", a,
              YandexID_get_user_info_start(idclients.sync, a))
    /\ UNCHANGED <<client, idclients, vinput, vresult>>

\* A task calls AsyncYandexID.get_user_info, up to its await.
CallAsyncGetUserInfo(c) ==
    /\ calls[c].pc = "idle"
    /\ \E a \in UserInfoArgs :
        Begin(c, "AsyncYandexID.get_user_info", a,
              AsyncYandexID_get_user_info_start(idclients.async, a))
    /\ UNCHANGED <<client, idclients, vinput, vresult>>

\* The identity transport completes the request.
IdTransportResponds(c) ==
    /\ calls[c].pc = "awaiting"
    /\ calls[c].op \in IdentityOps
    /\ \E resp \in IdResponses :
        calls' = [calls EXCEPT ![c].response = resp, ![c].pc = "ready"]
    /\ UNCHANGED <<client, idclients, vinput, vresult>>

\* get_user_info returns what _make_request returned, or raises what it raised.
ResumeGetUserInfo(c) ==
    /\ calls[c].pc = "ready"
    /\ calls[c].op \in IdentityOps
    /\ calls' = [calls EXCEPT ![c].pc = "done",
                              ![c].outcome = Id_MakeRequest_result(calls[c].response)]
    /\ UNCHANGED <<client, idclients, vinput, vresult>>

\* The caller takes the result (or catches the exception); the task is free
\* for its next call.
Collect(c) ==
    /\ calls[c].pc = "done"
    /\ calls' = [calls EXCEPT ![c] = Idle]
    /\ UNCHANGED <<client, idclients, vinput, vresult>>

Next ==
    \E c \in SeqTasks :
        \/ CallGetAuthorizationUrl(c)
        \/ CallGetTokenFromCode(c)
        \/ CallGetTokenFromRefreshToken(c)
        \/ CallRevokeToken(c)
        \/ TransportResponds(c)
        \/ ResumeGetTokenFromCode(c)
        \/ ResumeGetTokenFromRefreshToken(c)
        \/ ResumeRevokeToken(c)
        \/ CallSyncGetUserInfo(c)
        \/ CallAsyncGetUserInfo(c)
        \/ IdTransportResponds(c)
        \/ ResumeGetUserInfo(c)
        \/ Collect(c)

Spec == Init /\ [][Next]_vars

\* Several tasks run the coroutines of the one AsyncYandexOAuth object at
\* once, each suspended only at the await inside _make_request.
ConcCodeArgs ==
    [code : {"1234567"}, device_id : {None, <<"a", "b">>}, device_name : {None}]
ConcResponses ==
    [status : {200},
     body : {[access_token |-> "A", token_type |-> "bearer",
              expires_in |-> 3600, refresh_token |-> "R"],
             [error |-> "invalid_grant", error_description |-> "expired"],
             [status |-> "ok"]}]
    \cup [status : {500}, body : {[status |-> "ok"]}]

NextConc ==
    \E c \in Tasks :
        \/ CallGetTokenFromCodeWith(c, ConcCodeArgs)
        \/ CallGetTokenFromRefreshTokenWith(c, RefreshArgs)
        \/ CallRevokeTokenWith(c, RevokeArgs)
        \/ TransportRespondsWith(c, ConcResponses)
        \/ ResumeGetTokenFromCode(c)
        \/ ResumeGetTokenFromRefreshToken(c)
        \/ ResumeRevokeToken(c)
        \/ Collect(c)

SpecConc == Init /\ [][NextConc]_vars

----------------------------------------------------------------------------
(* Inputs of the validators when called on their own *)

MaxHead == 2        \* free characters at the front of a device id or name
MaxPad == 101       \* repeated 'x' after them
MaxTail == 1        \* free characters at the end
MaxScopeLen == 3    \* characters of a granted scope
MaxCsvLen == 4      \* characters of an optional_scope list

DeviceChars == {"a", "1", "-", " "}
ScopeChars == {"a", "b", " "}
CsvChars == {"a", "b", " ", ","}

SeqsUpTo(S, n) == UNION {[1..k -> S] : k \in 0..n}

\* Device ids and names: a short free head, a run of 'x', a short free tail.
DeviceStrings ==
    {h \o Repeat("x", p) \o t :
        h \in SeqsUpTo(DeviceChars, MaxHead), p \in 0..MaxPad,
        t \in SeqsUpTo(DeviceChars, MaxTail)}

ValidatorInputs ==
    [fn : {"DeviceID.validate"}, device_id : DeviceStrings]
    \cup [fn : {"DeviceName.validate"}, device_name : DeviceStrings]
    \cup [fn : {"OptionalScope.validate"},
          scope : SeqsUpTo(ScopeChars, MaxScopeLen),
          optional_scope : SeqsUpTo(CsvChars, MaxCsvLen)]

CallDeviceID ==
    /\ vinput.fn = "DeviceID.validate"
    /\ vresult = NotCalled
    /\ LET r == DeviceID_validate(vinput.device_id)
       IN  vresult' = [kind |-> r.kind, exc |-> r.exc, msg |-> r.msg, warnings |-> <<>>]
    /\ UNCHANGED <<client, idclients, calls, vinput>>

CallDeviceName ==
    /\ vinput.fn = "DeviceName.validate"
    /\ vresult = NotCalled
    /\ LET r == DeviceName_validate(vinput.device_name)
       IN  vresult' = [kind |-> r.kind, exc |-> r.exc, msg |-> r.msg, warnings |-> <<>>]
    /\ UNCHANGED <<client, idclients, calls, vinput>>

CallOptionalScope ==
    /\ vinput.fn = "OptionalScope.validate"
    /\ vresult = NotCalled
    /\ vresult' = [kind |-> "return", exc |-> "", msg |-> "",
                   warnings |-> OptionalScope_validate(vinput.scope, vinput.optional_scope)]
    /\ UNCHANGED <<client, idclients, calls, vinput>>

InitValidate ==
    /\ vinput \in ValidatorInputs
    /\ vresult = NotCalled
    /\ client = OAuth_init(<<"i", "d">>, <<"s", "2">>, <<"a", ":", "/", "b">>, None, FALSE)
    /\ idclients = [sync |-> YandexID_init("T", FALSE),
                    async |-> AsyncYandexID_init("T", FALSE)]
    /\ calls = [c \in Tasks |-> Idle]

NextValidate == CallDeviceID \/ CallDeviceName \/ CallOptionalScope

SpecValidate == InitValidate /\ [][NextValidate]_vars

----------------------------------------------------------------------------
(* Claims about the validators, checked under SpecValidate *)

\* What the claims call a comma-separated token that is ignored: its trimmed
\* form is not a substring of the granted scope.
RECURSIVE TrimmedNotGranted(_, _)
TrimmedNotGranted(granted, tokens) ==
    IF tokens = <<>> THEN <<>>
    ELSE (IF ~Contains(granted, Strip(Head(tokens))) THEN <<Strip(Head(tokens))>> ELSE <<>>)
         \o TrimmedNotGranted(granted, Tail(tokens))

\* C8: OptionalScope.validate never raises and reports as ignored exactly the
\* comma-separated tokens whose trimmed form is not a substring of the granted
\* scope; it emits no warning when no token is ignored.
C8_IgnoredAreTrimmedNonSubstrings ==
    (vinput.fn = "OptionalScope.validate" /\ vresult # NotCalled) =>
        LET expected == TrimmedNotGranted(vinput.scope, SplitComma(vinput.optional_scope))
        IN  /\ vresult.kind = "return"
            /\ vresult.warnings = IF expected # <<>> THEN <<expected>> ELSE <<>>

----------------------------------------------------------------------------
(* Claims about the OAuth client, checked under Spec *)

NetworkOps == {"get_token_from_code", "get_token_from_refresh_token", "revoke_token"}

\* YandexOAuthError and its subclasses (errors/yandexoauth.py).
OAuthTaxonomy ==
    {"YandexOAuthError", "InvalidDeviceID", "InvalidDeviceName", "AuthorizationPending",
     "BadVerificationCode", "InvalidClient", "InvalidGrant", "InvalidRequest",
     "InvalidScope", "UnauthorizedClient", "UnsupportedGrantType"}

\* The call got a JSON object back from _make_request and has ended.
GotBody(c) ==
    /\ calls[c].op \in NetworkOps
    /\ calls[c].pc = "done"
    /\ calls[c].response.status = 200

\* The per-operation table of the claim.
TableCodes(op) ==
    CASE op = "get_token_from_code" ->
            {"authorization_pending", "bad_verification_code", "invalid_client",
             "invalid_grant", "invalid_request", "invalid_scope",
             "unauthorized_client", "unsupported_grant_type"}
      [] op = "get_token_from_refresh_token" ->
            {"invalid_client", "invalid_grant", "invalid_request",
             "unauthorized_client", "unsupported_grant_type"}
      [] op = "revoke_token" ->
            {"invalid_client", "invalid_request", "unauthorized_client"}

TableKind(code) ==
    CASE code = "authorization_pending"  -> "AuthorizationPending"
      [] code = "bad_verification_code"  -> "BadVerificationCode"
      [] code = "invalid_client"         -> "InvalidClient"
      [] code = "invalid_grant"          -> "InvalidGrant"
      [] code = "invalid_request"        -> "InvalidRequest"
      [] code = "invalid_scope"          -> "InvalidScope"
      [] code = "unauthorized_client"    -> "UnauthorizedClient"
      [] code = "unsupported_grant_type" -> "UnsupportedGrantType"

\* C1: for every provider error code and each of the three operations the
\* failure raised is the one of the per-operation table, with the response's
\* error_description as its message; a code outside the operation's set
\* raises the generic YandexOAuthError.
C1_ErrorTablePerOperation ==
    \A c \in Tasks :
        (/\ GotBody(c)
         /\ "error" \in DOMAIN calls[c].response.body
         /\ "error_description" \in DOMAIN calls[c].response.body) =>
            LET body == calls[c].response.body
            IN  /\ calls[c].outcome.kind = "raise"
                /\ calls[c].outcome.exc =
                       IF body.error \in TableCodes(calls[c].op)
                       THEN TableKind(body.error) ELSE "YandexOAuthError"
                /\ calls[c].outcome.msg = body.error_description

\* revoke_token got invalid_grant and raised the generic error.
C1_Witness ==
    \E c \in Tasks :
        /\ GotBody(c)
        /\ calls[c].op = "revoke_token"
        /\ "error" \in DOMAIN calls[c].response.body
        /\ "error_description" \in DOMAIN calls[c].response.body
        /\ calls[c].response.body.error = "invalid_grant"
        /\ calls[c].outcome.exc = "YandexOAuthError"
        /\ calls[c].outcome.msg = calls[c].response.body.error_description

\* A body without `error` that holds what the operation's success value is
\* made of: the four required Token fields (revoke_token needs none).
SuccessShaped(op, body) ==
    op = "revoke_token"
    \/ {"access_token", "token_type", "expires_in", "refresh_token"} \subseteq DOMAIN body

\* C2: for every response body returned by the transport: with an `error`
\* field (whatever else the body holds or lacks, a missing error_description
\* included) a failure of the OAuth taxonomy is raised and nothing is
\* returned; without one the success value is returned.  The second half is
\* stated for bodies that hold the fields the success value is built from.
C2_ErrorFieldDecidesOutcome ==
    \A c \in Tasks :
        GotBody(c) =>
            LET body == calls[c].response.body
            IN  /\ "error" \in DOMAIN body =>
                       (/\ calls[c].outcome.kind = "raise"
                        /\ calls[c].outcome.exc \in OAuthTaxonomy)
                /\ ("error" \notin DOMAIN body /\ SuccessShaped(calls[c].op, body)) =>
                       calls[c].outcome.kind = "return"

\* What the claims call an invalid device id and an invalid device name.
InvalidId(id) ==
    Len(id) < 6 \/ Len(id) > 50 \/ \E i \in 1..Len(id) : id[i] \notin AlnumChars
InvalidName(name) == Len(name) > 100

\* C3: in get_token_from_code a supplied device_id or device_name that is
\* invalid raises InvalidDeviceID / InvalidDeviceName, and the call has sent
\* no request to the transport.
C3_ValidationBeforeNetwork ==
    \A c \in Tasks :
        (/\ calls[c].op = "get_token_from_code"
         /\ \/ Truthy(calls[c].args.device_id) /\ InvalidId(calls[c].args.device_id)
            \/ Truthy(calls[c].args.device_name) /\ InvalidName(calls[c].args.device_name)) =>
            /\ calls[c].pc = "done"
            /\ calls[c].requests = <<>>
            /\ calls[c].outcome.kind = "raise"
            /\ calls[c].outcome.exc \in {"InvalidDeviceID", "InvalidDeviceName"}

\* A valid device_id with a 101-character device_name: InvalidDeviceName,
\* nothing sent.
C3_Witness ==
    \E c \in Tasks :
        /\ calls[c].op = "get_token_from_code"
        /\ Truthy(calls[c].args.device_id) /\ ~InvalidId(calls[c].args.device_id)
        /\ Truthy(calls[c].args.device_name) /\ InvalidName(calls[c].args.device_name)
        /\ calls[c].outcome.exc = "InvalidDeviceName"
        /\ calls[c].requests = <<>>

\* The response is a transport failure or holds a provider error.
FailureResponse(r) == r.status >= 400 \/ "error" \in DOMAIN r.body

\* C4: each call of a network operation sends at most one request, and a
\* transport failure or a provider error on the first response is raised to
\* the caller with that one request the only one sent.
C4_AtMostOneRequest ==
    \A c \in Tasks :
        /\ Len(calls[c].requests) <= 1
        /\ (/\ calls[c].op \in NetworkOps
            /\ calls[c].pc = "done"
            /\ calls[c].response # NoResponse
            /\ FailureResponse(calls[c].response)) =>
                (calls[c].outcome.kind = "raise" /\ Len(calls[c].requests) = 1)

\* A refresh that met a 500 raised the transport's error after one request.
C4_Witness ==
    \E c \in Tasks :
        /\ calls[c].op = "get_token_from_refresh_token"
        /\ calls[c].pc = "done"
        /\ calls[c].response.status = 500
        /\ calls[c].outcome.exc = "HTTPStatusError"
        /\ Len(calls[c].requests) = 1

HasParam(url, key) == \E i \in 1..Len(url.query) : url.query[i][1] = key
ParamValues(url, key) == SelectSeq(url.query, LAMBDA kv : kv[1] = key)

\* C6: get_authorization_url without optional_scope: a valid device_id alone
\* is in the URL with one warning; a valid device_name alone is in the URL
\* with one warning; both valid are both in the URL with no warning; with
\* neither the URL holds neither and there is no warning.  The URL is
\* returned in each case.
C6_DevicePairing ==
    \A c \in Tasks :
        (/\ calls[c].op = "get_authorization_url"
         /\ calls[c].pc = "done"
         /\ ~Truthy(calls[c].args.optional_scope)
         /\ Truthy(calls[c].args.device_id) => ~InvalidId(calls[c].args.device_id)
         /\ Truthy(calls[c].args.device_name) => ~InvalidName(calls[c].args.device_name)) =>
            LET a == calls[c].args
                url == calls[c].outcome.value
                hasId == Truthy(a.device_id)
                hasName == Truthy(a.device_name)
            IN  /\ calls[c].outcome.kind = "return"
                /\ ParamValues(url, "device_id") =
                       IF hasId THEN <<<<"device_id", QuotePlus(a.device_id)>>>> ELSE <<>>
                /\ ParamValues(url, "device_name") =
                       IF hasName THEN <<<<"device_name", QuotePlus(a.device_name)>>>> ELSE <<>>
                /\ Len(calls[c].warnings) = IF hasId = hasName THEN 0 ELSE 1

\* A valid device_id without device_name: in the URL, one warning.
C6_Witness ==
    \E c \in Tasks :
        /\ calls[c].op = "get_authorization_url"
        /\ calls[c].pc = "done"
        /\ ~Truthy(calls[c].args.optional_scope)
        /\ Truthy(calls[c].args.device_id)
        /\ calls[c].args.device_name = None
        /\ calls[c].outcome.kind = "return"
        /\ HasParam(calls[c].outcome.value, "device_id")
        /\ Len(calls[c].warnings) = 1

\* The warnings of a call that name optional scopes.
ScopeWarnings(c) == SelectSeq(calls[c].warnings, LAMBDA w : w.scopes # <<>>)

\* C7: in get_authorization_url a given optional_scope is validated against
\* the `scope` argument whenever that is non-empty and against the client's
\* default scope only when the argument is empty, and it is in the URL
\* unchanged in every case.
C7_ExplicitScopePreferred ==
    \A c \in Tasks :
        (/\ calls[c].op = "get_authorization_url"
         /\ calls[c].pc = "done"
         /\ calls[c].outcome.kind = "return"
         /\ Truthy(calls[c].args.optional_scope)) =>
            LET a == calls[c].args
                against == IF Truthy(a.scope) THEN a.scope
                           ELSE IF Truthy(client.scope) THEN client.scope
                           ELSE None
                expected == IF against = None THEN <<>>
                            ELSE OptionalScope_validate(against, a.optional_scope)
            IN  /\ ParamValues(calls[c].outcome.value, "optional_scope") =
                       <<<<"optional_scope", QuotePlus(a.optional_scope)>>>>
                /\ ScopeWarnings(c) =
                       [i \in 1..Len(expected) |-> W_OptionalScope(expected[i])]

----------------------------------------------------------------------------
(* Claims about the requests of the OAuth client and the identity clients *)

\* C11: every request the OAuth client and the identity clients send carries
\* User-Agent: YandexID/<version>, whether the object built its own HTTP
\* client or was given one through `client`.
C11_UserAgentOnEveryRequest ==
    \A c \in Tasks :
        \A i \in 1..Len(calls[c].requests) :
            calls[c].requests[i].user_agent = "YandexID/__version__"

\* The query parameters of a request that have a given name.
QueryNamed(req, key) == SelectSeq(req.params, LAMBDA kv : kv[1] = key)

\* C12: get_user_info (sync and async) sends GET /info whose query always
\* holds `format`, holds with_openid_identity=1 only when the flag is truthy,
\* holds a parameter named exactly `jwt_secret` with the value whenever a
\* non-empty jwt_secret is supplied, and holds no secret parameter otherwise.
C12_UserInfoQuery ==
    \A c \in Tasks :
        (calls[c].op \in IdentityOps /\ calls[c].requests # <<>>) =>
            LET a == calls[c].args
                req == calls[c].requests[1]
                secret == a.jwt_secret # NoneStr /\ a.jwt_secret # ""
            IN  /\ req.method = "GET" /\ req.url = "/info"
                /\ QueryNamed(req, "format") = << <<"format", a.format>> >>
                /\ QueryNamed(req, "with_openid_identity") =
                       IF a.with_openid_identity
                       THEN << <<"with_openid_identity", 1>> >> ELSE <<>>
                /\ QueryNamed(req, "jwt_secret") =
                       IF secret THEN << <<"jwt_secret", a.jwt_secret>> >> ELSE <<>>
                /\ ~secret =>
                       \A i \in 1..Len(req.params) :
                           req.params[i][1] \in {"format", "with_openid_identity"}

----------------------------------------------------------------------------
(* Claims about concurrent calls, checked under SpecConc *)

\* The argument of a call as its request body must carry it.
OwnData(c) ==
    CASE calls[c].op = "get_token_from_code" ->
            << <<"grant_type", "authorization_code">>, <<"code", calls[c].args.code>> >>
      [] calls[c].op = "get_token_from_refresh_token" ->
            << <<"grant_type", "refresh_token">>,
               <<"refresh_token", calls[c].args.refresh_token>> >>
      [] calls[c].op = "revoke_token" ->
            << <<"access_token", calls[c].args.access_token>> >>

\* What the call's own response makes of it when the operation runs alone.
OwnOutcome(c) ==
    CASE calls[c].op = "get_token_from_code" ->
            get_token_from_code_finish(calls[c].response)
      [] calls[c].op = "get_token_from_refresh_token" ->
            get_token_from_refresh_token_finish(calls[c].response)
      [] calls[c].op = "revoke_token" ->
            revoke_token_finish(calls[c].response)

\* C13: with several OAuth operations in flight on one AsyncYandexOAuth
\* object, under every interleaving each call's request carries its own
\* arguments and the object's credentials, and its outcome is the one its own
\* arguments and its own response give: no call sees or alters another's.
C13_CallsIndependent ==
    \A c \in Tasks :
        calls[c].op \in NetworkOps =>
            /\ \A i \in 1..Len(calls[c].requests) :
                   /\ SubSeq(calls[c].requests[i].data, 1, Len(OwnData(c))) = OwnData(c)
                   /\ calls[c].requests[i].authorization = BasicAuth(client)
            /\ (calls[c].pc = "done" /\ calls[c].response # NoResponse) =>
                   calls[c].outcome = OwnOutcome(c)
            /\ (calls[c].pc = "done" /\ calls[c].response = NoResponse) =>
                   (/\ calls[c].requests = <<>>
                    /\ calls[c].outcome.exc \in {"InvalidDeviceID", "InvalidDeviceName"})

\* Task 2 has finished with its Token while task 1, whose response holds an
\* error, is still suspended at its await.
C13_Witness ==
    /\ calls[1].op = "get_token_from_refresh_token"
    /\ calls[1].pc = "ready"
    /\ "error" \in DOMAIN calls[1].response.body
    /\ calls[2].op = "get_token_from_refresh_token"
    /\ calls[2].pc = "done"
    /\ calls[2].args # calls[1].args
    /\ calls[2].outcome.kind = "return"

----------------------------------------------------------------------------
(* Claims about the Token, checked under Spec *)

TokenFields == {"access_token", "token_type", "expires_in", "refresh_token"}
TokenOps == {"get_token_from_code", "get_token_from_refresh_token"}

\* C14: when get_token_from_code or get_token_from_refresh_token receives an
\* error-free body holding access_token, token_type, expires_in and
\* refresh_token (scope optional), it returns a Token whose fields equal the
\* body's, scope being None when the body has none, and raises nothing.
C14_TokenRoundTrip ==
    \A c \in Tasks :
        (/\ calls[c].op \in TokenOps
         /\ calls[c].pc = "done"
         /\ calls[c].response.status = 200
         /\ "error" \notin DOMAIN calls[c].response.body
         /\ TokenFields \subseteq DOMAIN calls[c].response.body) =>
            LET body == calls[c].response.body
                token == calls[c].outcome.value
            IN  /\ calls[c].outcome.kind = "return"
                /\ token.type = "Token"
                /\ \A f \in TokenFields : token[f] = body[f]
                /\ token.scope = IF "scope" \in DOMAIN body THEN body.scope ELSE NoScope

\* An exchange answered with a body that names a scope has returned its Token.
C14_Witness ==
    \E c \in Tasks :
        /\ calls[c].op = "get_token_from_code"
        /\ calls[c].pc = "done"
        /\ calls[c].response.status = 200
        /\ TokenFields \cup {"scope"} \subseteq DOMAIN calls[c].response.body
        /\ calls[c].outcome.kind = "return"
        /\ calls[c].outcome.value.scope = "login:info"

\* C15: every Token returned by get_token_from_code or
\* get_token_from_refresh_token has token_type = "bearer" and expires_in > 0,
\* whatever body the provider sent.
C15_TokenWellFormed ==
    \A c \in Tasks :
        (/\ calls[c].op \in TokenOps
         /\ calls[c].pc = "done"
         /\ calls[c].outcome.kind = "return") =>
            /\ calls[c].outcome.value.token_type = "bearer"
            /\ calls[c].outcome.value.expires_in > 0

----------------------------------------------------------------------------
(* Claims about empty device parameters, checked under Spec *)

DeviceOps == {"get_authorization_url", "get_token_from_code"}

\* The key/value pairs named `key` a finished call has put in its URL or in
\* the body of its request.
SentNamed(c, key) ==
    IF calls[c].op = "get_authorization_url"
    THEN IF calls[c].outcome.kind = "return"
         THEN ParamValues(calls[c].outcome.value, key) ELSE <<>>
    ELSE IF calls[c].requests = <<>> THEN <<>>
         ELSE SelectSeq(calls[c].requests[1].data, LAMBDA kv : kv[1] = key)

Warned(c, w) == \E i \in 1..Len(calls[c].warnings) : calls[c].warnings[i] = w

\* C17: in get_authorization_url and get_token_from_code an empty-string
\* device_id or device_name is treated as absent: it is not validated (no
\* InvalidDeviceID for the empty device_id), it is not sent, and the other
\* device parameter, when valid and non-empty, brings the half-specified
\* warning; and when a non-empty device_id and a non-empty device_name are
\* both invalid the failure raised is InvalidDeviceID.
C17_EmptyDeviceParamIsAbsent ==
    \A c \in Tasks :
        (calls[c].op \in DeviceOps /\ calls[c].pc \in {"awaiting", "ready", "done"}) =>
            LET a == calls[c].args
                raisedAs(e) == calls[c].outcome.kind = "raise" /\ calls[c].outcome.exc = e
            IN  /\ a.device_id = <<>> =>
                    /\ ~raisedAs("InvalidDeviceID")
                    /\ SentNamed(c, "device_id") = <<>>
                    /\ (Truthy(a.device_name) /\ ~InvalidName(a.device_name)) =>
                           Warned(c, W_NameIgnored)
                /\ a.device_name = <<>> =>
                    /\ ~raisedAs("InvalidDeviceName")
                    /\ SentNamed(c, "device_name") = <<>>
                    /\ (Truthy(a.device_id) /\ ~InvalidId(a.device_id)) =>
                           Warned(c, W_UnknownDevice)
                /\ (/\ Truthy(a.device_id) /\ InvalidId(a.device_id)
                    /\ Truthy(a.device_name) /\ InvalidName(a.device_name)) =>
                        raisedAs("InvalidDeviceID")

\* get_token_from_code with device_id '' and a valid device_name has sent
\* its request, without device_id, and warned that the name is ignored.
C17_Witness ==
    \E c \in Tasks :
        /\ calls[c].op = "get_token_from_code"
        /\ calls[c].pc = "awaiting"
        /\ calls[c].args.device_id = <<>>
        /\ calls[c].args.device_name = <<"a", " ", "b">>
        /\ SentNamed(c, "device_id") = <<>>
        /\ SentNamed(c, "device_name") # <<>>
        /\ calls[c].warnings = <<W_NameIgnored>>

----------------------------------------------------------------------------
(* Claims about the client's credentials, checked under Spec *)

Credentials(self) ==
    <<self.client_id, self.client_secret, self.redirect_uri, self.scope>>

\* C16: no call of get_authorization_url, get_token_from_code,
\* get_token_from_refresh_token or revoke_token, returning or raising, changes
\* the client's client_id, client_secret, redirect_uri or default scope (a
\* `scope` argument of get_authorization_url does not replace the default),
\* and every token or revoke request carries the Basic credentials of the
\* client_id:client_secret the client was built with.
C16_CredentialsUnchanged ==
    /\ [][Credentials(client') = Credentials(client)]_vars
    /\ [](\A c \in Tasks : \A i \in 1..Len(calls[c].requests) :
              calls[c].op \in NetworkOps =>
                  calls[c].requests[i].authorization
                      = <<"B", "a", "s", "i", "c", " ">>
                        \o B64Encode(Encode(client.client_id \o <<":">> \o client.client_secret)))

\* get_authorization_url has returned a URL for a `scope` argument that
\* differs from the client's default scope.
C16_Witness ==
    \E c \in Tasks :
        /\ calls[c].op = "get_authorization_url"
        /\ calls[c].pc = "done"
        /\ calls[c].outcome.kind = "return"
        /\ Truthy(calls[c].args.scope)
        /\ Truthy(client.scope)
        /\ calls[c].args.scope # client.scope
        /\ HasParam(calls[c].outcome.value, "scope")

====
